---- MODULE Spec2Model ----
(***************************************************************************)
(* Model of the agent dashboard: the Flask gateway (backend_api.py) and    *)
(* the Streamlit dashboard client (frontend_app.py).                       *)
(*                                                                         *)
(* Text built by a Python f-string is modelled as the sequence of its      *)
(* fragments (literal pieces and interpolated values, in order), so that   *)
(* "the response contains the prompt" is a statement about the fragments.  *)
(***************************************************************************)
EXTENDS Integers, Sequences, FiniteSets, TLC

VARIABLES
    AVAILABLE_AGENTS,   \* gateway: module-level list of agent records
    PRE_BUILT_TOOLS,    \* gateway: module-level list of tool records
    exchange,           \* gateway: the request just served and its response
    prevExchange,       \* gateway: the exchange served before that one
    agents,             \* client: st.session_state.agents
    selected_agent_id,  \* client: st.session_state.selected_agent_id
    selected_agent_name,\* client: st.session_state.selected_agent_name
    messages,           \* client: st.session_state.messages (the transcript)
    agent_selector,     \* client: widget state of the selectbox (key "agent_selector")
    agentsCache,        \* client: st.cache_data entry of fetch_agents
    toolsCache,         \* client: st.cache_data entry of fetch_tools
    now,                \* client: wall-clock time in seconds
    backendUp,          \* environment: whether the gateway answers HTTP requests
    pc,                 \* client: where the last script run ended
    lastEvent,          \* history: the event that triggered the last step
    turnAgent,          \* history: per transcript turn, the agent selected when it was appended
    chatCalls           \* history: number of POST /api/v1/chat calls the client has issued

gatewayVars == <<AVAILABLE_AGENTS, PRE_BUILT_TOOLS, exchange, prevExchange>>
clientVars == <<agents, selected_agent_id, selected_agent_name, messages, agent_selector,
                agentsCache, toolsCache, now, backendUp, pc, lastEvent, turnAgent, chatCalls>>
vars == <<gatewayVars, clientVars>>

(***************************************************************************)
(* Bounds of the model.                                                    *)
(***************************************************************************)
MaxHistory == 1      \* longest history sequence sent in a chat request
MaxSubmissions == 2  \* prompt submissions per transcript
TimeStep == 1800     \* seconds by which the clock advances in one step
MaxTime == 5400      \* the clock stops advancing here

\* Python's None.
None == "<None>"

\* Python truthiness of an optional string: None and "" are falsy.
Falsy(x) == x = None \/ x = ""

(***************************************************************************)
(* Gateway: the static catalogs.                                           *)
(***************************************************************************)
CUSTOM_AGENT_RESOURCE_NAME ==
    "projects/stately-moon-480119-h9/locations/global/agents/16e30e05-6c68-461f-921e-2d81f73541ed"

InitialAgents ==
    << [id |-> "product-agent-custom",
        name |-> "Product Inventory & Catalog Agent (Custom)",
        description |-> "Custom agent leveraging ProductCatalogTool (RAG) and ProductInventoryTool (Cloud Function).",
        type |-> "Custom Agent",
        resource_name |-> CUSTOM_AGENT_RESOURCE_NAME],
       [id |-> "free-agent-financial",
        name |-> "Financial Analysis Assistant",
        description |-> "Pre-built agent for general financial queries and market trends (Mock).",
        type |-> "Vertex AI Agent",
        resource_name |-> "mock-financial-agent"],
       [id |-> "free-agent-code",
        name |-> "Code Generation Helper",
        description |-> "Pre-built agent for generating Python snippets and debugging code (Mock).",
        type |-> "Vertex AI Agent",
        resource_name |-> "mock-code-agent"] >>

InitialTools ==
    << [name |-> "Vertex AI Search", category |-> "Vertex AI Native",
        description |-> "Grounding with your private data stores.", type |-> "RAG Tool"],
       [name |-> "Grounding with Google Search", category |-> "Vertex AI Native",
        description |-> "Real-time, public information search.", type |-> "Search Tool"],
       [name |-> "Cloud SQL - PostgreSQL", category |-> "GCP Connector",
        description |-> "Connects to a PostgreSQL database on Google Cloud SQL.",
        type |-> "Database Connector"],
       [name |-> "Google Calendar", category |-> "Google Connector",
        description |-> "Manages schedules and events via Google Calendar.",
        type |-> "Productivity Connector"],
       [name |-> "Jira Cloud", category |-> "Third-Party Connector",
        description |-> "Interacts with Jira for issue and project management.",
        type |-> "Productivity Connector"],
       [name |-> "Oracle DB", category |-> "Third-Party Connector",
        description |-> "Connects to an Oracle Database instance.",
        type |-> "Database Connector"] >>

\* The value of `next(..., None)` when no agent matches: an agent-shaped None.
NoAgent == [id |-> None, name |-> None, description |-> None, type |-> None,
            resource_name |-> None]

\* next((a for a in agentList if a['id'] == agent_id), None): first match of a linear scan.
RECURSIVE FindAgent(_, _)
FindAgent(agentList, agent_id) ==
    IF agentList = <<>> THEN NoAgent
    ELSE IF Head(agentList).id = agent_id THEN Head(agentList)
    ELSE FindAgent(Tail(agentList), agent_id)

(***************************************************************************)
(* Gateway: responses.  kind is "response" for {"response": text}, "error" *)
(* for {"error": text}, "list" for a JSON array, and "unhandled" when an   *)
(* exception leaves the view function and Flask answers 500 itself.        *)
(***************************************************************************)
JsonText(status, kind, text) == [status |-> status, kind |-> kind, text |-> text, list |-> <<>>]
JsonList(list) == [status |-> 200, kind |-> "list", text |-> <<>>, list |-> list]

\* make_response(jsonify({"error": "Missing agentId or prompt"}), 400)
MissingFieldResponse == JsonText(400, "error", <<"Missing agentId or prompt">>)

\* The f-string of the mock branch; agent_config['name'] on None raises TypeError.
MockResponse(agent_config, user_prompt) ==
    IF agent_config = NoAgent
    THEN JsonText(500, "unhandled", <<"TypeError: 'NoneType' object is not subscriptable">>)
    ELSE JsonText(200, "response",
                  <<"Selected agent '", agent_config.name,
                    "' is running in mock mode. You asked: '", user_prompt, "'">>)

\* final_response of the custom-agent branch.
CustomAgentResponse(agent_config, user_prompt) ==
    JsonText(200, "response",
             <<"**", "Response from your Custom Product Agent", " (", agent_config.name, "):** ",
               "I have successfully processed your request: '", user_prompt, "'. ",
               "If this were live, I would now be consulting the RAG tool (ProductCatalogTool) or the ",
               "Cloud Function (ProductInventoryTool) using my defined tools.">>)

\* VertexErrorResponse with the exception's message left out of the text.
VertexErrorResponse_NoMessage(e) ==
    JsonText(500, "error", <<"Vertex AI Agent Error: ", ". Check ADC and agent configuration.">>)

\* The except branch: the exception's message between a prefix and the hint.
VertexErrorResponse(e) ==
    JsonText(500, "error",
             <<"Vertex AI Agent Error: ", e, ". Check ADC and agent configuration.">>)

\* Whether the branch taken is the mock branch.
IsMockBranch(agent_config) == agent_config = NoAgent \/ agent_config.type # "Custom Agent"

\* ChatWithAgent with the validation testing agentId only.
ChatWithAgent_NoPromptCheck(agentList, data, clientInit) ==
    LET agent_id == data.agentId
        user_prompt == data.prompt
    IN  IF Falsy(agent_id)
        THEN [response |-> MissingFieldResponse, steps |-> <<"validate">>]
        ELSE LET agent_config == FindAgent(agentList, agent_id)
             IN  IF IsMockBranch(agent_config)
                 THEN [response |-> MockResponse(agent_config, user_prompt),
                       steps |-> <<"validate", "lookup">>]
                 ELSE IF clientInit # "ok"
                 THEN [response |-> VertexErrorResponse(clientInit),
                       steps |-> <<"validate", "lookup", "client_init">>]
                 ELSE [response |-> CustomAgentResponse(agent_config, user_prompt),
                       steps |-> <<"validate", "lookup", "client_init", "print">>]

\* ChatWithAgent with the validation also rejecting an empty history.
ChatWithAgent_RequiresHistory(agentList, data, clientInit) ==
    LET agent_id == data.agentId
        user_prompt == data.prompt
    IN  IF Falsy(agent_id) \/ Falsy(user_prompt) \/ data.history = <<>>
        THEN [response |-> MissingFieldResponse, steps |-> <<"validate">>]
        ELSE LET agent_config == FindAgent(agentList, agent_id)
             IN  IF IsMockBranch(agent_config)
                 THEN [response |-> MockResponse(agent_config, user_prompt),
                       steps |-> <<"validate", "lookup">>]
                 ELSE IF clientInit # "ok"
                 THEN [response |-> VertexErrorResponse(clientInit),
                       steps |-> <<"validate", "lookup", "client_init">>]
                 ELSE [response |-> CustomAgentResponse(agent_config, user_prompt),
                       steps |-> <<"validate", "lookup", "client_init", "print">>]

(***************************************************************************)
(* chat_with_agent on request body `data`; clientInit is the outcome of    *)
(* constructing the ChatServiceClient: "ok" or the exception's message.    *)
(* The result holds the response and the steps the handler went through.   *)
(***************************************************************************)
ChatWithAgent(agentList, data, clientInit) ==
    LET agent_id == data.agentId
        user_prompt == data.prompt
    IN  IF Falsy(agent_id) \/ Falsy(user_prompt)
        THEN [response |-> MissingFieldResponse, steps |-> <<"validate">>]
        ELSE LET agent_config == FindAgent(agentList, agent_id)
             IN  IF IsMockBranch(agent_config)
                 THEN [response |-> MockResponse(agent_config, user_prompt),
                       steps |-> <<"validate", "lookup">>]
                 ELSE IF clientInit # "ok"
                 THEN [response |-> VertexErrorResponse(clientInit),
                       steps |-> <<"validate", "lookup", "client_init">>]
                 ELSE [response |-> CustomAgentResponse(agent_config, user_prompt),
                       steps |-> <<"validate", "lookup", "client_init", "print">>]

\* ListAgentsResponse with the list in reverse order.
ListAgentsResponse_Reversed(agentList) ==
    JsonList([i \in 1..Len(agentList) |-> agentList[Len(agentList) + 1 - i]])

\* list_agents and list_tools: jsonify of the module-level list.
ListAgentsResponse(agentList) == JsonList(agentList)
ListToolsResponse(toolList) == JsonList(toolList)

(***************************************************************************)
(* Inputs of the gateway.                                                  *)
(***************************************************************************)
AgentIdInputs == {None, "", "product-agent-custom", "free-agent-financial",
                  "free-agent-code", "no-such-agent"}
PromptInputs == {None, "", "hello", "Check stock for SKU123"}
HistoryEntries == {[role |-> "user", text |-> "hello"]}
Histories == UNION {[1..n -> HistoryEntries] : n \in 0..MaxHistory}
ClientInitOutcomes == {"ok", "DefaultCredentialsError"}

NoData == [agentId |-> None, prompt |-> None, history |-> <<>>]
NoExchange == [op |-> "none", data |-> NoData, clientInit |-> "ok",
               response |-> JsonList(<<>>), steps |-> <<>>]

(***************************************************************************)
(* Gateway: one action per route.                                          *)
(***************************************************************************)
Served(op, data, clientInit, response, steps) ==
    /\ exchange' = [op |-> op, data |-> data, clientInit |-> clientInit,
                    response |-> response, steps |-> steps]
    /\ prevExchange' = exchange
    /\ UNCHANGED <<AVAILABLE_AGENTS, PRE_BUILT_TOOLS>>
    /\ UNCHANGED clientVars

\* GET /
Home ==
    Served("home", NoData, "ok",
           JsonText(200, "status", <<"Agent Dashboard API is Running",
                                     "/api/v1/agents", "/api/v1/chat">>), <<>>)

\* GET /api/v1/agents
ListAgents == Served("list_agents", NoData, "ok", ListAgentsResponse(AVAILABLE_AGENTS), <<>>)

\* GET /api/v1/tools
ListTools == Served("list_tools", NoData, "ok", ListToolsResponse(PRE_BUILT_TOOLS), <<>>)

\* POST /api/v1/chat
Chat ==
    \E agent_id \in AgentIdInputs, user_prompt \in PromptInputs, history \in Histories,
       clientInit \in ClientInitOutcomes :
        LET data == [agentId |-> agent_id, prompt |-> user_prompt, history |-> history]
            result == ChatWithAgent(AVAILABLE_AGENTS, data, clientInit)
        IN  Served("chat", data, clientInit, result.response, result.steps)

(***************************************************************************)
(* Client: the st.cache_data entries of fetch_agents and fetch_tools.      *)
(***************************************************************************)
FETCH_AGENTS_TTL == 3600
FETCH_TOOLS_TTL == 3600

NoEntry == [valid |-> FALSE, value |-> <<>>, at |-> 0]

\* An entry is served until ttl seconds after it was stored.
CacheFresh(entry, t, ttl) == entry.valid /\ t - entry.at < ttl

\* The value the body of fetch_agents returns: the gateway's list, or [] from
\* either except branch.
FetchAgentsBody(up, agentList) == IF up THEN ListAgentsResponse(agentList).list ELSE <<>>

\* The value the body of fetch_tools returns.
FetchToolsBody(up, toolList) == IF up THEN ListToolsResponse(toolList).list ELSE <<>>

\* What @st.cache_data stores after the decorated function ran: its return value.
StoreEntry(value, t) == [valid |-> TRUE, value |-> value, at |-> t]

\* fetch_agents() through its cache: the value returned and the entry afterwards.
fetch_agents(entry, t, up, agentList) ==
    IF CacheFresh(entry, t, FETCH_AGENTS_TTL)
    THEN [value |-> entry.value, entry |-> entry]
    ELSE [value |-> FetchAgentsBody(up, agentList),
          entry |-> StoreEntry(FetchAgentsBody(up, agentList), t)]

\* fetch_tools() through its cache.
fetch_tools(entry, t, up, toolList) ==
    IF CacheFresh(entry, t, FETCH_TOOLS_TTL)
    THEN [value |-> entry.value, entry |-> entry]
    ELSE [value |-> FetchToolsBody(up, toolList),
          entry |-> StoreEntry(FetchToolsBody(up, toolList), t)]

(***************************************************************************)
(* Client: the transcript.                                                 *)
(***************************************************************************)
THINKING == <<"Thinking...">>

Turn(role, content) == [role |-> role, content |-> content]
UserTurn(prompt) == Turn("user", <<prompt>>)
Placeholder == Turn("assistant", THINKING)

Last(seq) == seq[Len(seq)]
ReplaceLast(seq, x) == [seq EXCEPT ![Len(seq)] = x]

\* The "history" of the chat request: messages[:-1] as {role, text} pairs.
HistoryOf(msgs) == [i \in 1..(Len(msgs) - 1) |-> [role |-> msgs[i].role, text |-> msgs[i].content]]

\* st.rerun() ends the current script run: no statement after it is executed.
StRerunHalts == TRUE

\* Steps 3 and 4 of handle_user_input: the chat call and the replacement of the
\* last transcript element.  raise_for_status() turns a 4xx/5xx answer into a
\* RequestException, like a refused connection.
ResolvePlaceholder(msgs, agent_id, prompt, up, agentList) ==
    LET data == [agentId |-> agent_id, prompt |-> prompt, history |-> HistoryOf(msgs)]
        response == ChatWithAgent(agentList, data, "ok").response
    IN  IF up /\ response.status = 200
        THEN ReplaceLast(msgs, Turn("assistant", response.text))
        ELSE ReplaceLast(msgs, Turn("error",
                 <<"Backend Request Error: ", IF up THEN "HTTPError" ELSE "ConnectionError",
                   ". Ensure the Flask API is running correctly.">>))

\* handle_user_input without the placeholder turn.
handle_user_input_NoPlaceholder(msgs, agent_id, prompt, up, agentList) ==
    [messages |-> Append(msgs, UserTurn(prompt)), called |-> FALSE]

\* handle_user_input(prompt): the transcript afterwards and whether the chat call was issued.
handle_user_input(msgs, agent_id, prompt, up, agentList) ==
    LET appended == Append(Append(msgs, UserTurn(prompt)), Placeholder)
    IN  IF StRerunHalts
        THEN [messages |-> appended, called |-> FALSE]
        ELSE [messages |-> ResolvePlaceholder(appended, agent_id, prompt, up, agentList),
              called |-> TRUE]

(***************************************************************************)
(* Client: one run of the script.                                          *)
(***************************************************************************)
AgentIds(agentList) == [i \in 1..Len(agentList) |-> agentList[i].id]

IndexOf(seq, x) == CHOOSE i \in 1..Len(seq) : seq[i] = x /\ \A j \in 1..(i - 1) : seq[j] # x

InSeq(seq, x) == \E i \in 1..Len(seq) : seq[i] = x

\* The selectbox's value: its widget state when it has one, else the option at
\* default_index (the position of selected_agent_id, or the first option).
SelectboxValue(widget, options, selected) ==
    IF widget # None THEN widget
    ELSE IF InSeq(options, selected) THEN options[IndexOf(options, selected)]
    ELSE options[1]

\* The session state as one record.
Session(selected, name, msgs, turns) ==
    [selected_agent_id |-> selected, selected_agent_name |-> name, messages |-> msgs,
     turns |-> turns]

CurrentSession == Session(selected_agent_id, selected_agent_name, messages, turnAgent)

\* The script body from the sidebar down.  `session` is the session state after
\* any widget callback of this run, `widget` the selectbox's widget state at the
\* start of the run, `prompt` what st.chat_input returns in this run (None when
\* nothing was submitted).
ScriptBody(event, session, widget, prompt) ==
    LET msgs == session.messages
        selected == session.selected_agent_id
        turns == session.turns
        fetched == fetch_agents(agentsCache, now, backendUp, AVAILABLE_AGENTS)
        agent_list == fetched.value
    IN  /\ agentsCache' = fetched.entry
        /\ lastEvent' = event
        /\ UNCHANGED <<now, backendUp>>
        /\ UNCHANGED gatewayVars
        /\ IF agent_list = <<>>
           THEN \* st.warning(...); st.stop(): nothing below is rendered, and the
                \* state of the widgets that were not rendered is dropped.
                /\ pc' = "stopped"
                /\ agent_selector' = None
                /\ messages' = msgs
                /\ turnAgent' = turns
                /\ selected_agent_id' = selected
                /\ selected_agent_name' = session.selected_agent_name
                /\ UNCHANGED <<agents, toolsCache, chatCalls>>
           ELSE LET selected_agent_option ==
                        SelectboxValue(widget, AgentIds(agent_list), selected)
                    handled == handle_user_input(msgs, selected_agent_option, prompt,
                                                 backendUp, AVAILABLE_AGENTS)
                IN  /\ agents' = agent_list
                    /\ agent_selector' = selected_agent_option
                    /\ selected_agent_id' = selected_agent_option
                    /\ selected_agent_name' = FindAgent(agent_list, selected_agent_option).name
                    /\ toolsCache' = fetch_tools(toolsCache, now, backendUp, PRE_BUILT_TOOLS).entry
                    /\ IF prompt = None
                       THEN /\ messages' = msgs
                            /\ turnAgent' = turns
                            /\ pc' = "idle"
                            /\ UNCHANGED chatCalls
                       ELSE /\ messages' = handled.messages
                            /\ turnAgent' = turns \o <<selected_agent_option, selected_agent_option>>
                            /\ pc' = "rerun"
                            /\ chatCalls' = chatCalls + (IF handled.called THEN 1 ELSE 0)

(***************************************************************************)
(* Client: what can happen.                                                *)
(***************************************************************************)
Prompts == {"hello", "Check stock for SKU123"}

Event(kind, arg) == [kind |-> kind, arg |-> arg]

\* select_agent_callback without the clearing of the transcript.
select_agent_callback_KeepsTranscript(choice) ==
    Session(choice, FindAgent(agents, choice).name, messages, turnAgent)

\* select_agent_callback: the session state it leaves.
select_agent_callback(choice) ==
    Session(choice, FindAgent(agents, choice).name, <<>>, <<>>)

\* A script run with no widget event: the first load of the page, or a rerun the
\* user asks for (the retry after the connectivity warning).
Load ==
    /\ pc \in {"start", "idle", "stopped"}
    /\ ScriptBody(Event("load", ""), CurrentSession, agent_selector, None)

\* The script run that st.rerun() asked for.
RerunScript ==
    /\ pc = "rerun"
    /\ ScriptBody(Event("rerun", ""), CurrentSession, agent_selector, None)

\* The user picks another agent in the selectbox: the callback runs, then the script.
SelectAgent ==
    /\ pc = "idle"
    /\ \E choice \in {agents[i].id : i \in 1..Len(agents)} :
        /\ choice # agent_selector
        /\ ScriptBody(Event("select", choice), select_agent_callback(choice), choice, None)

\* The user submits a prompt in the chat input: the script runs, and
\* st.chat_input returns the prompt if the run gets that far.
SubmitPrompt ==
    /\ pc = "idle"
    /\ Len(messages) < 2 * MaxSubmissions
    /\ \E prompt \in Prompts :
        ScriptBody(Event("submit", prompt), CurrentSession, agent_selector, prompt)

\* The browser page is reloaded: a new session with fresh session state; the
\* st.cache_data entries belong to the process and stay.
NewSession ==
    /\ pc \in {"idle", "stopped"}
    /\ ScriptBody(Event("session", ""), Session(None, None, <<>>, <<>>), None, None)

\* Time passes.
Tick ==
    /\ now + TimeStep <= MaxTime
    /\ now' = now + TimeStep
    /\ lastEvent' = Event("tick", "")
    /\ UNCHANGED <<agents, selected_agent_id, selected_agent_name, messages, agent_selector,
                   agentsCache, toolsCache, backendUp, pc, turnAgent, chatCalls>>
    /\ UNCHANGED gatewayVars

\* The gateway process stops.
BackendDown ==
    /\ backendUp
    /\ backendUp' = FALSE
    /\ lastEvent' = Event("down", "")
    /\ UNCHANGED <<agents, selected_agent_id, selected_agent_name, messages, agent_selector,
                   agentsCache, toolsCache, now, pc, turnAgent, chatCalls>>
    /\ UNCHANGED gatewayVars

\* The gateway process is started.
BackendStart ==
    /\ ~backendUp
    /\ backendUp' = TRUE
    /\ lastEvent' = Event("up", "")
    /\ UNCHANGED <<agents, selected_agent_id, selected_agent_name, messages, agent_selector,
                   agentsCache, toolsCache, now, pc, turnAgent, chatCalls>>
    /\ UNCHANGED gatewayVars

(***************************************************************************)
(* Specifications.                                                         *)
(***************************************************************************)
Init ==
    /\ AVAILABLE_AGENTS = InitialAgents
    /\ PRE_BUILT_TOOLS = InitialTools
    /\ exchange = NoExchange
    /\ prevExchange = NoExchange
    /\ agents = <<>>
    /\ selected_agent_id = None
    /\ selected_agent_name = None
    /\ messages = <<>>
    /\ agent_selector = None
    /\ agentsCache = NoEntry
    /\ toolsCache = NoEntry
    /\ now = 0
    /\ backendUp \in BOOLEAN
    /\ pc = "start"
    /\ lastEvent = Event("none", "")
    /\ turnAgent = <<>>
    /\ chatCalls = 0

GatewayNext == Home \/ ListAgents \/ ListTools \/ Chat

ClientNext ==
    \/ Load \/ RerunScript \/ SelectAgent \/ SubmitPrompt \/ NewSession
    \/ Tick \/ BackendDown \/ BackendStart

\* The gateway serving requests.
GatewayInit == Init /\ backendUp = TRUE
GatewaySpec == GatewayInit /\ [][GatewayNext]_vars

\* The dashboard client of one browser tab, with time and the gateway's availability.
ClientSpec == Init /\ [][ClientNext]_vars

(***************************************************************************)
(* Properties of the gateway (checked under GatewaySpec).                  *)
(***************************************************************************)
IsChat(x) == x.op = "chat"
ValidFields(x) == ~Falsy(x.data.agentId) /\ ~Falsy(x.data.prompt)
SameQuestion(x, y) ==
    /\ x.data.agentId = y.data.agentId
    /\ x.data.prompt = y.data.prompt
    /\ x.clientInit = y.clientInit

\* C1: a chat request with non-empty agentId and prompt whose agentId is absent
\* from the catalog, or names an agent that is not a custom agent, is answered
\* 200 with the mock text, which contains the prompt; it never ends in an error.
C1_MockBranchAlwaysSucceeds ==
    (/\ IsChat(exchange)
     /\ ValidFields(exchange)
     /\ IsMockBranch(FindAgent(AVAILABLE_AGENTS, exchange.data.agentId)))
    => /\ exchange.response.status = 200
       /\ exchange.response.kind = "response"
       /\ InSeq(exchange.response.text, exchange.data.prompt)
       /\ InSeq(exchange.response.text, "' is running in mock mode. You asked: '")

\* C4: a chat request whose agentId or prompt is missing or empty is answered
\* 400 with an error message, whatever the other field and the history, and
\* the handler gets neither to the agent lookup nor to the client construction.
C4_MissingFieldIsRejected ==
    (IsChat(exchange) /\ ~ValidFields(exchange))
    => /\ exchange.response.status = 400
       /\ exchange.response.kind = "error"
       /\ exchange.response.text # <<>>
       /\ ~InSeq(exchange.steps, "lookup")
       /\ ~InSeq(exchange.steps, "client_init")

\* chat("", "hello", []) was answered 400, then chat("product-agent-custom", "", [h]) was.
C4_Witness ==
    /\ IsChat(prevExchange) /\ IsChat(exchange)
    /\ prevExchange.data = [agentId |-> "", prompt |-> "hello", history |-> <<>>]
    /\ prevExchange.response.status = 400
    /\ exchange.data.agentId = "product-agent-custom"
    /\ exchange.data.prompt = ""
    /\ exchange.data.history # <<>>
    /\ exchange.response.status = 400

\* C6: a chat request naming product-agent-custom with a non-empty prompt has
\* two outcomes.  When the client construction fails: 500 with an error text
\* holding the exception's message and the hint.  Otherwise: 200 with a text
\* holding "Response from your Custom Product Agent", the agent's name and the
\* prompt.
C6_CustomAgentOutcomes ==
    (/\ IsChat(exchange)
     /\ exchange.data.agentId = "product-agent-custom"
     /\ ~Falsy(exchange.data.prompt))
    => IF exchange.clientInit # "ok"
       THEN /\ exchange.response.status = 500
            /\ exchange.response.kind = "error"
            /\ InSeq(exchange.response.text, exchange.clientInit)
            /\ InSeq(exchange.response.text, ". Check ADC and agent configuration.")
       ELSE /\ exchange.response.status = 200
            /\ exchange.response.kind = "response"
            /\ InSeq(exchange.response.text, "Response from your Custom Product Agent")
            /\ InSeq(exchange.response.text, "Product Inventory & Catalog Agent (Custom)")
            /\ InSeq(exchange.response.text, exchange.data.prompt)

\* The custom agent was asked twice: the client construction failed, then succeeded.
C6_Witness ==
    /\ IsChat(prevExchange) /\ IsChat(exchange)
    /\ prevExchange.data.agentId = "product-agent-custom"
    /\ prevExchange.data.prompt = "Check stock for SKU123"
    /\ prevExchange.clientInit = "DefaultCredentialsError"
    /\ prevExchange.response.status = 500
    /\ exchange.data.agentId = "product-agent-custom"
    /\ exchange.data.prompt = "Check stock for SKU123"
    /\ exchange.clientInit = "ok"
    /\ exchange.response.status = 200

\* C8: whatever requests were served, both catalogs are the lists of startup,
\* list_agents and list_tools answer with the whole list in its order, agent ids
\* are pairwise distinct, and looking an id of the catalog up yields the record
\* with that id.
C8_CatalogsImmutable ==
    /\ AVAILABLE_AGENTS = InitialAgents
    /\ PRE_BUILT_TOOLS = InitialTools
    /\ exchange.op = "list_agents" =>
           exchange.response.status = 200 /\ exchange.response.list = InitialAgents
    /\ exchange.op = "list_tools" =>
           exchange.response.status = 200 /\ exchange.response.list = InitialTools
    /\ \A i, j \in 1..Len(AVAILABLE_AGENTS) :
           i # j => AVAILABLE_AGENTS[i].id # AVAILABLE_AGENTS[j].id
    /\ \A i \in 1..Len(AVAILABLE_AGENTS) :
           FindAgent(AVAILABLE_AGENTS, AVAILABLE_AGENTS[i].id) = AVAILABLE_AGENTS[i]

\* list_agents was called right after a chat request that ended in an error.
C8_Witness ==
    /\ IsChat(prevExchange)
    /\ prevExchange.response.status = 500
    /\ exchange.op = "list_agents"
    /\ Len(exchange.response.list) = 3

\* C10: two consecutive chat requests with the same agentId, prompt and outcome
\* of the client construction get the same status and text, whatever their
\* histories.
C10_HistoryIsIgnored ==
    (IsChat(prevExchange) /\ IsChat(exchange) /\ SameQuestion(prevExchange, exchange))
    => /\ exchange.response.status = prevExchange.response.status
       /\ exchange.response.kind = prevExchange.response.kind
       /\ exchange.response.text = prevExchange.response.text

\* The same question was asked twice with different histories and answered 200.
C10_Witness ==
    /\ IsChat(prevExchange) /\ IsChat(exchange)
    /\ SameQuestion(prevExchange, exchange)
    /\ prevExchange.data.history # exchange.data.history
    /\ exchange.data.agentId = "free-agent-financial"
    /\ exchange.response.status = 200

(***************************************************************************)
(* Properties of the dashboard client (checked under ClientSpec).          *)
(***************************************************************************)
IsRun(event) == event.kind \in {"load", "rerun", "select", "submit", "session"}

PairStructure ==
    /\ Len(messages) % 2 = 0
    /\ \A i \in 1..Len(messages) :
        IF i % 2 = 1
        THEN messages[i].role = "user"
        ELSE messages[i].role \in {"assistant", "error"}

\* C2: once the client has come to rest after a submission (no rerun pending),
\* the placeholder has been replaced: the last transcript element is not the
\* "Thinking..." placeholder.
C2_PlaceholderIsResolved ==
    (pc = "idle" /\ messages # <<>>) => Last(messages) # Placeholder

\* C3 as stated: every prompt submission grows the transcript by exactly two
\* turns, a user turn with the prompt and then an assistant or error turn.
C3_EverySubmissionAddsTwoTurns ==
    [][lastEvent'.kind = "submit" =>
          /\ Len(messages') = Len(messages) + 2
          /\ SubSeq(messages', 1, Len(messages)) = messages
          /\ messages'[Len(messages) + 1] = UserTurn(lastEvent'.arg)
          /\ messages'[Len(messages) + 2].role \in {"assistant", "error"}]_vars

\* C3 amended: a prompt submission whose script run is not stopped at the
\* connectivity warning grows the transcript by exactly two turns, a user turn
\* with the prompt and then an assistant or error turn; one whose run is stopped
\* there leaves the transcript as it was.  The transcript is always a sequence of
\* (user, assistant|error) pairs.
C3_HandledSubmissionAddsTwoTurns ==
    /\ []PairStructure
    /\ [][lastEvent'.kind = "submit" =>
            IF pc' = "stopped"
            THEN messages' = messages
            ELSE /\ Len(messages') = Len(messages) + 2
                 /\ SubSeq(messages', 1, Len(messages)) = messages
                 /\ messages'[Len(messages) + 1] = UserTurn(lastEvent'.arg)
                 /\ messages'[Len(messages) + 2].role \in {"assistant", "error"}]_vars

\* A second prompt was just submitted and handled.
C3_Witness ==
    /\ lastEvent = Event("submit", "Check stock for SKU123")
    /\ pc = "rerun"
    /\ Len(messages) = 4
    /\ messages[3] = UserTurn("Check stock for SKU123")

\* C5: an agent switch leaves the transcript empty and the new agent selected,
\* and every turn of the transcript was appended while the agent now selected
\* was the selected one.
C5_SwitchResetsTranscript ==
    /\ [](/\ Len(turnAgent) = Len(messages)
          /\ \A i \in 1..Len(turnAgent) : turnAgent[i] = selected_agent_id)
    /\ [][lastEvent'.kind = "select" =>
            /\ messages' = <<>>
            /\ selected_agent_id' = lastEvent'.arg
            /\ selected_agent_id' # selected_agent_id]_vars

\* After a switch away from the default agent, a prompt was submitted.
C5_Witness ==
    /\ selected_agent_id = "free-agent-financial"
    /\ Len(messages) = 2
    /\ turnAgent = <<"free-agent-financial", "free-agent-financial">>
    /\ lastEvent.kind = "submit"

\* C7: a script run made while the gateway is reachable fetches the agent list
\* and is not stopped at the connectivity warning.
C7_ReachableGatewayIsFetched ==
    (IsRun(lastEvent) /\ backendUp) => (pc # "stopped" /\ agents = InitialAgents)

\* C9: a submission that inserts the placeholder goes on to issue the chat call
\* and to replace the placeholder, the last element, by the call's result before
\* anything else happens to the transcript.
C9_CallFollowsPlaceholder ==
    [][(lastEvent'.kind = "submit" /\ Len(messages') > Len(messages)) =>
          /\ chatCalls' = chatCalls + 1
          /\ Last(messages') # Placeholder
          /\ messages'[Len(messages') - 1] = UserTurn(lastEvent'.arg)]_vars

====
